---- MODULE Spec2Model ----
(***************************************************************************)
(* Model of scripts/update_registry.go: the registry reconciliation run.   *)
(* One run reads TAG and BLUEPRINTS_REPO, loads registry.json, fetches the *)
(* release of the tag, builds one Blueprint per "*.zip" asset (manifest    *)
(* values first, fallbacks otherwise), upserts it by name into the         *)
(* in-memory Database and finally writes registry.json back.               *)
(***************************************************************************)
EXTENDS Integers, Sequences, FiniteSets, TLC

(***************************************************************************)
(* Bounds of the model.                                                    *)
(***************************************************************************)
MaxRuns == 2        \* runs of main started one after the other
MaxAssets == 2      \* assets in one release document
MaxLen == 2         \* catalog length drawn for the pure-function checks

(***************************************************************************)
(* Go string helpers (package strings, fmt, path).                         *)
(***************************************************************************)
HasSuffix(s, suffix) ==
    /\ Len(s) >= Len(suffix)
    /\ SubSeq(s, Len(s) - Len(suffix) + 1, Len(s)) = suffix

HasPrefix(s, prefix) ==
    /\ Len(s) >= Len(prefix)
    /\ SubSeq(s, 1, Len(prefix)) = prefix

TrimSuffix(s, suffix) ==
    IF HasSuffix(s, suffix) THEN SubSeq(s, 1, Len(s) - Len(suffix)) ELSE s

TrimPrefix(s, prefix) ==
    IF HasPrefix(s, prefix) THEN SubSeq(s, Len(prefix) + 1, Len(s)) ELSE s

\* path.Join("blueprints", name): empty elements are dropped, the rest are
\* joined with "/" (the names of the model hold no "/" or "." elements, so
\* path.Clean changes nothing else).
PathJoin(dir, name) ==
    IF name = "" THEN dir ELSE dir \o "/" \o name

(***************************************************************************)
(* Go slices: a nil slice and an empty non-nil slice are different values  *)
(* (encoding/json writes null for the first and [] for the second).        *)
(***************************************************************************)
NilSlice == [nil |-> TRUE, elems |-> <<>>]
Slice(s) == [nil |-> FALSE, elems |-> s]

(***************************************************************************)
(* type bpManifest: the zero value is the empty manifest.                  *)
(***************************************************************************)
bpManifest(n, v, d, t) == [Name |-> n, Version |-> v, Description |-> d, Tags |-> t]
EmptyManifest == bpManifest("", "", "", NilSlice)

(***************************************************************************)
(* type Blueprint.                                                         *)
(***************************************************************************)
Blueprint(n, v, r, p, u, d, t) ==
    [Name |-> n, Version |-> v, Repo |-> r, Path |-> p,
     DownloadURL |-> u, Description |-> d, Tags |-> t]

(***************************************************************************)
(* The upsert loop of main: the first entry whose Name equals entry.Name   *)
(* is overwritten (then break); without a match the entry is appended.     *)
(***************************************************************************)
RECURSIVE FindFrom(_, _, _)
FindFrom(bps, name, i) ==
    IF i > Len(bps) THEN 0
    ELSE IF bps[i].Name = name THEN i
    ELSE FindFrom(bps, name, i + 1)

\* Faulty variants of the upsert loop.
Upsert_AlwaysAppend(bps, entry) == Append(bps, entry)

Upsert_NoOverwrite(bps, entry) ==
    IF FindFrom(bps, entry.Name, 1) # 0 THEN bps ELSE Append(bps, entry)

Upsert_Prepend(bps, entry) ==
    LET i == FindFrom(bps, entry.Name, 1)
    IN  IF i # 0 THEN [bps EXCEPT ![i] = entry] ELSE <<entry>> \o bps

Upsert_ForgetFound(bps, entry) ==
    LET i == FindFrom(bps, entry.Name, 1)
    IN  IF i # 0 THEN Append([bps EXCEPT ![i] = entry], entry) ELSE Append(bps, entry)

Upsert_KeepDescription(bps, entry) ==
    LET i == FindFrom(bps, entry.Name, 1)
    IN  IF i # 0
        THEN [bps EXCEPT ![i] = [entry EXCEPT !.Description = bps[i].Description]]
        ELSE Append(bps, entry)

Upsert_MoveToEnd(bps, entry) ==
    Append(SelectSeq(bps, LAMBDA b : b.Name # entry.Name), entry)

Upsert(bps, entry) ==
    LET i == FindFrom(bps, entry.Name, 1)
    IN  IF i # 0
        THEN [bps EXCEPT ![i] = entry]
        ELSE Append(bps, entry)

(***************************************************************************)
(* func httpGet: a transport error or a status outside 2xx is an error,    *)
(* otherwise the body is returned.  A response is what the remote side     *)
(* does: [transport |-> BOOLEAN, status |-> Nat, body |-> ...].            *)
(***************************************************************************)
Response(ok, status, body) == [transport |-> ok, status |-> status, body |-> body]

httpGet(resp) ==
    IF ~resp.transport THEN [err |-> "transport", body |-> <<>>]
    ELSE IF resp.status \div 100 # 2 THEN [err |-> "status", body |-> <<>>]
    ELSE [err |-> "nil", body |-> resp.body]

(***************************************************************************)
(* A manifest.yaml body.  syntax = FALSE is a document the YAML parser     *)
(* rejects.  Otherwise each recognised key holds a node: absent, a scalar  *)
(* ("str"), a sequence of scalars ("seq") or a mapping ("map").            *)
(***************************************************************************)
Absent == [kind |-> "absent", val |-> <<>>]
Scalar(s) == [kind |-> "str", val |-> s]
SeqNode(s) == [kind |-> "seq", val |-> s]
MapNode == [kind |-> "map", val |-> <<>>]

YamlDoc(n, v, d, t) == [syntax |-> TRUE, name |-> n, version |-> v, description |-> d, tags |-> t]
YamlSyntaxError == [syntax |-> FALSE, name |-> Absent, version |-> Absent,
                    description |-> Absent, tags |-> Absent]

\* yaml.Unmarshal(mb, &man) of yaml.v3.  The document is parsed as a whole
\* before anything is stored, so a syntax error leaves man untouched.  A
\* node whose type does not fit its field is skipped and reported in the
\* returned TypeError, while the well-typed fields ARE still stored.
YamlString(node, old) == IF node.kind = "str" THEN node.val ELSE old
YamlStrings(node, old) == IF node.kind = "seq" THEN Slice(node.val) ELSE old
YamlTypeError(doc) ==
    \/ doc.name.kind \in {"seq", "map"}
    \/ doc.version.kind \in {"seq", "map"}
    \/ doc.description.kind \in {"seq", "map"}
    \/ doc.tags.kind \in {"str", "map"}

yamlUnmarshal(doc, man) ==
    IF ~doc.syntax THEN [err |-> "syntax", man |-> man]
    ELSE [err |-> IF YamlTypeError(doc) THEN "type" ELSE "nil",
          man |-> bpManifest(YamlString(doc.name, man.Name),
                             YamlString(doc.version, man.Version),
                             YamlString(doc.description, man.Description),
                             YamlStrings(doc.tags, man.Tags))]

\* main, lines 142-146: var man bpManifest; decoded only when httpGet
\* returned no error, and the error of yaml.Unmarshal is dropped.
ResolveManifest(resp) ==
    LET r == httpGet(resp)
    IN  IF r.err = "nil" THEN yamlUnmarshal(r.body, EmptyManifest).man
        ELSE EmptyManifest

\* TRUE when the manifest could not be resolved: fetch error, missing
\* document (non-2xx status) or parse error.
ManifestFailed(resp) ==
    LET r == httpGet(resp)
    IN  r.err # "nil" \/ yamlUnmarshal(r.body, EmptyManifest).err # "nil"

\* Faulty variant: the fallbacks are applied together, when the name is empty.
Fallbacks_AllOrNothing(man, name, tag) ==
    IF man.Name = ""
    THEN bpManifest(name, TrimPrefix(tag, "v"), name \o " blueprint", man.Tags)
    ELSE man

\* main, lines 147-156: "Fallbacks if manifest missing".
Fallbacks(man, name, tag) ==
    bpManifest(IF man.Name = "" THEN name ELSE man.Name,
               IF man.Version = "" THEN TrimPrefix(tag, "v") ELSE man.Version,
               IF man.Description = "" THEN name \o " blueprint" ELSE man.Description,
               man.Tags)

\* main, lines 158-166: entry := Blueprint{...}.
NewEntry(man, repo, name, a) ==
    Blueprint(man.Name, man.Version, "github.com/" \o repo,
              PathJoin("blueprints", name), a.BrowserDownloadURL,
              man.Description, man.Tags)

\* The entry one qualifying asset yields (main, lines 138-166).
BuildEntry(tag, repo, a, resp) ==
    LET name == TrimSuffix(a.Name, ".zip")
    IN  NewEntry(Fallbacks(ResolveManifest(resp), name, tag), repo, name, a)

\* Faulty variant: no filter.
Qualifies_All(a) == TRUE

\* main, line 135: the asset filter.
Qualifies(a) == HasSuffix(a.Name, ".zip")

(***************************************************************************)
(* encoding/json.  In the strings of the model the character "#" stands    *)
(* for a byte that is not valid UTF-8 and "?" for U+FFFD: both Marshal and *)
(* Unmarshal replace invalid bytes of a string by U+FFFD.                  *)
(***************************************************************************)
RECURSIVE CoerceUTF8(_)
CoerceUTF8(s) ==
    IF s = "" THEN ""
    ELSE (IF SubSeq(s, 1, 1) = "#" THEN "?" ELSE SubSeq(s, 1, 1))
            \o CoerceUTF8(SubSeq(s, 2, Len(s)))

JsonStrings(t) ==
    [nil |-> t.nil, elems |-> [i \in 1..Len(t.elems) |-> CoerceUTF8(t.elems[i])]]

JsonBlueprint(b) ==
    Blueprint(CoerceUTF8(b.Name), CoerceUTF8(b.Version), CoerceUTF8(b.Repo),
              CoerceUTF8(b.Path), CoerceUTF8(b.DownloadURL),
              CoerceUTF8(b.Description), JsonStrings(b.Tags))

\* The content of registry.json: no file, bytes that are not a JSON
\* document of the Database shape, or such a document, whose "blueprints"
\* member is null/missing (nil |-> TRUE) or a list of objects.
NoFile == [kind |-> "absent", blueprints |-> NilSlice]
Malformed == [kind |-> "malformed", blueprints |-> NilSlice]
JsonFile(bps) == [kind |-> "json", blueprints |-> bps]

\* json.MarshalIndent(db, "", "  ") for a Database: never fails.
MarshalIndent(bps) ==
    JsonFile([nil |-> bps.nil,
              elems |-> [i \in 1..Len(bps.elems) |-> JsonBlueprint(bps.elems[i])]])

\* json.Unmarshal(b, &db) for a Database.
jsonUnmarshal(f) ==
    IF f.kind = "json"
    THEN [err |-> FALSE,
          bps |-> [nil |-> f.blueprints.nil,
                   elems |-> [i \in 1..Len(f.blueprints.elems) |->
                                 JsonBlueprint(f.blueprints.elems[i])]]]
    ELSE [err |-> TRUE, bps |-> NilSlice]

\* func loadDB.  readErr: os.ReadFile fails for another reason than
\* os.ErrNotExist.  The result always holds a non-nil slice, given here as
\* the sequence of its elements.
loadDB(f, readErr) ==
    IF f.kind = "absent" THEN [err |-> FALSE, db |-> <<>>]
    ELSE IF readErr THEN [err |-> TRUE, db |-> <<>>]
    ELSE LET u == jsonUnmarshal(f)
         IN  IF u.err THEN [err |-> TRUE, db |-> <<>>]
             ELSE [err |-> FALSE, db |-> u.bps.elems]

\* func saveDB.  A nil slice is replaced by an empty one before marshalling.
\* os.WriteFile opens the file with O_TRUNC and then writes:
\*   "ok"    the file holds the marshalled bytes;
\*   "open"  the open failed, the file is as it was;
\*   "write" the write failed after the truncation, the file holds a
\*           strict prefix of the bytes, which is no JSON document.
WriteOutcomes == {"ok", "open", "write"}

\* Faulty variant: the entries of the file whose names the catalog does not
\* hold are kept, after the catalog.
saveDB_KeepOthers(f, bps, outcome) ==
    LET cur == IF f.kind = "json" THEN f.blueprints.elems ELSE <<>>
        others == SelectSeq(cur, LAMBDA b :
                     \A i \in 1..Len(bps.elems) : bps.elems[i].Name # b.Name)
        b == MarshalIndent(Slice(bps.elems \o others))
    IN  CASE outcome = "ok" -> [err |-> FALSE, file |-> b]
          [] outcome = "open" -> [err |-> TRUE, file |-> f]
          [] outcome = "write" -> [err |-> TRUE, file |-> Malformed]

saveDB(f, bps, outcome) ==
    LET b == MarshalIndent(IF bps.nil THEN Slice(<<>>) ELSE bps)
    IN  CASE outcome = "ok" -> [err |-> FALSE, file |-> b]
          [] outcome = "open" -> [err |-> TRUE, file |-> f]
          [] outcome = "write" -> [err |-> TRUE, file |-> Malformed]

(***************************************************************************)
(* Inputs of the runs.                                                     *)
(***************************************************************************)
Procs == {1, 2}

Tags == {"", "v1.2.3", "vv2"}            \* os.Getenv("TAG")
Repos == {"", "o/r"}                     \* os.Getenv("BLUEPRINTS_REPO")

Asset(n, u) == [Name |-> n, BrowserDownloadURL |-> u]
Assets == {Asset("foo.zip", "U2"), Asset("foo.tar", "U2"), Asset("alpha.zip", "U1")}

RECURSIVE SeqsUpTo(_, _)
SeqsUpTo(S, n) ==
    IF n = 0 THEN {<<>>}
    ELSE LET shorter == SeqsUpTo(S, n - 1)
         IN  shorter \cup {Append(q, x) : q \in {r \in shorter : Len(r) = n - 1}, x \in S}

\* Bodies of the release lookup: not a release document, or one with an
\* asset list.
BadReleaseBody == [valid |-> FALSE, assets |-> <<>>]
ReleaseBody(as) == [valid |-> TRUE, assets |-> as]
ReleaseResponses ==
    {Response(FALSE, 0, BadReleaseBody), Response(TRUE, 404, BadReleaseBody),
     Response(TRUE, 200, BadReleaseBody)}
    \cup {Response(TRUE, 200, ReleaseBody(as)) : as \in SeqsUpTo(Assets, MaxAssets)}

\* Manifest documents and the responses of the manifest fetch.
FullDoc == YamlDoc(Scalar("alpha"), Scalar("2.0"), Scalar("Alpha tools"), SeqNode(<<"cli">>))
EmptyDoc == YamlDoc(Absent, Absent, Absent, Absent)
BadTagsDoc == YamlDoc(Scalar("alpha"), Absent, Absent, Scalar("cli"))
ManifestResponses ==
    {Response(FALSE, 0, EmptyDoc), Response(TRUE, 404, EmptyDoc)}
    \cup {Response(TRUE, 200, d) : d \in {FullDoc, EmptyDoc, BadTagsDoc, YamlSyntaxError}}

\* Contents registry.json may have before the first run.
OldAlpha == Blueprint("alpha", "0.9", "github.com/o/r", "blueprints/alpha", "U0", "old", Slice(<<"x">>))
OldFoo == Blueprint("foo", "0.9", "github.com/o/r", "blueprints/foo", "U0", "old", NilSlice)
OldBeta == Blueprint("beta", "0.1", "github.com/o/r", "blueprints/beta", "U0", "old", NilSlice)
InitFiles ==
    {NoFile, Malformed, JsonFile(NilSlice), JsonFile(Slice(<<>>)),
     JsonFile(Slice(<<OldAlpha>>)), JsonFile(Slice(<<OldFoo, OldAlpha>>)),
     JsonFile(Slice(<<OldBeta>>)),
     JsonFile(Slice(<<OldAlpha, OldFoo, OldAlpha>>))}

(***************************************************************************)
(* State.                                                                  *)
(***************************************************************************)
VARIABLES
    file,        \* content of registry.json
    runs,        \* number of runs started so far
    pc,          \* pc[p]: where run p stands in main
    tag, repo,   \* the environment of run p
    db,          \* db.Blueprints of run p
    rb,          \* result of httpGet(relURL) of run p
    rel,         \* rel.Assets of run p
    idx,         \* index of the next asset of the range loop
    exit,        \* exit status of run p (-1 while running)
    file0,       \* history: registry.json before the first run
    fileAtStart, \* history: registry.json when run p started
    loaded,      \* history: the catalog run p loaded
    log,         \* history: index and entry of every upsert of run p, in order
    last,        \* history: the latest iteration of the asset loop of run p
    saved,       \* history: the catalogs run p passed to saveDB
    failedAt,    \* history: the step that ended run p with exit status 1
    io,          \* history: the file and network operations of run p, in order
    summary,     \* the entry count run p printed on success (-1: nothing printed)
    fn           \* the latest application of a function to drawn arguments

vars == <<file, runs, pc, tag, repo, db, rb, rel, idx, exit,
          file0, fileAtStart, loaded, log, last, saved, failedAt, io, summary, fn>>

runVars == <<file, runs, pc, tag, repo, db, rb, rel, idx, exit,
             file0, fileAtStart, loaded, log, last, saved, failedAt, io, summary>>

NoBody == [err |-> "none", body |-> BadReleaseBody]
NoEntry == Blueprint("", "", "", "", "", "", NilSlice)
NoIteration == [i |-> 0, skipped |-> TRUE, name |-> "", entry |-> NoEntry]
NoCall == [op |-> "none"]

RunInit(f) ==
    /\ file = f
    /\ file0 = f
    /\ runs = 0
    /\ pc = [p \in Procs |-> "idle"]
    /\ tag = [p \in Procs |-> ""]
    /\ repo = [p \in Procs |-> ""]
    /\ db = [p \in Procs |-> <<>>]
    /\ rb = [p \in Procs |-> NoBody]
    /\ rel = [p \in Procs |-> <<>>]
    /\ idx = [p \in Procs |-> 1]
    /\ exit = [p \in Procs |-> -1]
    /\ fileAtStart = [p \in Procs |-> f]
    /\ loaded = [p \in Procs |-> <<>>]
    /\ log = [p \in Procs |-> <<>>]
    /\ last = [p \in Procs |-> NoIteration]
    /\ saved = [p \in Procs |-> <<>>]
    /\ failedAt = [p \in Procs |-> "none"]
    /\ io = [p \in Procs |-> <<>>]
    /\ summary = [p \in Procs |-> -1]

Init ==
    /\ \E f \in InitFiles : RunInit(f)
    /\ fn = NoCall

\* Faulty variant: the message is written but the run goes on to the save.
Fatal_NoExit(p, step) ==
    /\ pc' = [pc EXCEPT ![p] = "save"]
    /\ exit' = exit
    /\ failedAt' = [failedAt EXCEPT ![p] = step]

\* os.Exit(1) after a message on stderr.
Fatal(p, step) ==
    /\ pc' = [pc EXCEPT ![p] = "failed"]
    /\ exit' = [exit EXCEPT ![p] = 1]
    /\ failedAt' = [failedAt EXCEPT ![p] = step]

\* Faulty variant: only the tag is checked.
Start_NoRepoCheck(p) ==
    /\ pc[p] \in {"idle", "done", "failed"}
    /\ runs < MaxRuns
    /\ runs' = runs + 1
    /\ \E t \in Tags, r \in Repos :
          /\ tag' = [tag EXCEPT ![p] = t]
          /\ repo' = [repo EXCEPT ![p] = r]
          /\ IF t = ""
             THEN Fatal(p, "config")
             ELSE /\ pc' = [pc EXCEPT ![p] = "load"]
                  /\ exit' = [exit EXCEPT ![p] = -1]
                  /\ failedAt' = [failedAt EXCEPT ![p] = "none"]
    /\ db' = [db EXCEPT ![p] = <<>>]
    /\ rb' = [rb EXCEPT ![p] = NoBody]
    /\ rel' = [rel EXCEPT ![p] = <<>>]
    /\ idx' = [idx EXCEPT ![p] = 1]
    /\ fileAtStart' = [fileAtStart EXCEPT ![p] = file]
    /\ loaded' = [loaded EXCEPT ![p] = <<>>]
    /\ log' = [log EXCEPT ![p] = <<>>]
    /\ last' = [last EXCEPT ![p] = NoIteration]
    /\ saved' = [saved EXCEPT ![p] = <<>>]
    /\ io' = [io EXCEPT ![p] = <<>>]
    /\ summary' = [summary EXCEPT ![p] = -1]
    /\ UNCHANGED <<file, file0>>

\* main, lines 106-112: a run starts, reads its environment and checks it.
Start(p) ==
    /\ pc[p] \in {"idle", "done", "failed"}
    /\ runs < MaxRuns
    /\ runs' = runs + 1
    /\ \E t \in Tags, r \in Repos :
          /\ tag' = [tag EXCEPT ![p] = t]
          /\ repo' = [repo EXCEPT ![p] = r]
          /\ IF t = "" \/ r = ""
             THEN Fatal(p, "config")
             ELSE /\ pc' = [pc EXCEPT ![p] = "load"]
                  /\ exit' = [exit EXCEPT ![p] = -1]
                  /\ failedAt' = [failedAt EXCEPT ![p] = "none"]
    /\ db' = [db EXCEPT ![p] = <<>>]
    /\ rb' = [rb EXCEPT ![p] = NoBody]
    /\ rel' = [rel EXCEPT ![p] = <<>>]
    /\ idx' = [idx EXCEPT ![p] = 1]
    /\ fileAtStart' = [fileAtStart EXCEPT ![p] = file]
    /\ loaded' = [loaded EXCEPT ![p] = <<>>]
    /\ log' = [log EXCEPT ![p] = <<>>]
    /\ last' = [last EXCEPT ![p] = NoIteration]
    /\ saved' = [saved EXCEPT ![p] = <<>>]
    /\ io' = [io EXCEPT ![p] = <<>>]
    /\ summary' = [summary EXCEPT ![p] = -1]
    /\ UNCHANGED <<file, file0>>

\* main, lines 114-118: db, err := loadDB("registry.json").
Load(p) ==
    /\ pc[p] = "load"
    /\ \E readErr \in BOOLEAN :
          LET r == loadDB(file, readErr)
          IN  IF r.err
              THEN /\ Fatal(p, "load")
                   /\ UNCHANGED <<db, loaded>>
              ELSE /\ db' = [db EXCEPT ![p] = r.db]
                   /\ loaded' = [loaded EXCEPT ![p] = r.db]
                   /\ pc' = [pc EXCEPT ![p] = "fetch"]
                   /\ UNCHANGED <<exit, failedAt>>
    /\ io' = [io EXCEPT ![p] = Append(@, "load")]
    /\ UNCHANGED <<file, runs, tag, repo, rb, rel, idx, file0, fileAtStart, log, last, saved,
                   summary>>

\* main, lines 121-126: rb, err := httpGet(ctx, relURL).
FetchRelease(p) ==
    /\ pc[p] = "fetch"
    /\ \E resp \in ReleaseResponses :
          LET r == httpGet(resp)
          IN  IF r.err # "nil"
              THEN /\ Fatal(p, "release")
                   /\ UNCHANGED rb
              ELSE /\ rb' = [rb EXCEPT ![p] = r]
                   /\ pc' = [pc EXCEPT ![p] = "decode"]
                   /\ UNCHANGED <<exit, failedAt>>
    /\ io' = [io EXCEPT ![p] = Append(@, "get release")]
    /\ UNCHANGED <<file, runs, tag, repo, db, rel, idx, file0, fileAtStart, loaded, log, last,
                   saved, summary>>

\* main, lines 127-131: json.Unmarshal(rb, &rel).
DecodeRelease(p) ==
    /\ pc[p] = "decode"
    /\ IF ~rb[p].body.valid
       THEN /\ Fatal(p, "decode release")
            /\ UNCHANGED <<rel, idx>>
       ELSE /\ rel' = [rel EXCEPT ![p] = rb[p].body.assets]
            /\ idx' = [idx EXCEPT ![p] = 1]
            /\ pc' = [pc EXCEPT ![p] = "loop"]
            /\ UNCHANGED <<exit, failedAt>>
    /\ UNCHANGED <<file, runs, tag, repo, db, rb, file0, fileAtStart, loaded, log, last, saved,
                   io, summary>>

\* Faulty variant: a manifest that cannot be resolved ends the run.
ProcessAsset_FatalManifest(p) ==
    /\ pc[p] = "loop"
    /\ idx[p] <= Len(rel[p])
    /\ LET a == rel[p][idx[p]]
           name == TrimSuffix(a.Name, ".zip")
       IN  IF ~Qualifies(a)
           THEN /\ last' = [last EXCEPT ![p] =
                           [i |-> idx[p], skipped |-> TRUE, name |-> "", entry |-> NoEntry]]
                /\ UNCHANGED <<db, log, pc, exit, failedAt, io>>
           ELSE \E resp \in ManifestResponses :
                   /\ io' = [io EXCEPT ![p] = Append(@, "get manifest")]
                   /\ IF ManifestFailed(resp)
                      THEN /\ Fatal(p, "manifest")
                           /\ UNCHANGED <<db, log, last>>
                      ELSE LET entry == BuildEntry(tag[p], repo[p], a, resp)
                        IN  /\ db' = [db EXCEPT ![p] = Upsert(db[p], entry)]
                            /\ log' = [log EXCEPT ![p] = Append(@,
                                       [i |-> idx[p], entry |-> entry, manifestErr |-> FALSE])]
                            /\ last' = [last EXCEPT ![p] =
                                       [i |-> idx[p], skipped |-> FALSE, name |-> name,
                                        entry |-> entry]]
                            /\ UNCHANGED <<pc, exit, failedAt>>
    /\ idx' = [idx EXCEPT ![p] = idx[p] + 1]
    /\ UNCHANGED <<file, runs, tag, repo, rb, rel, file0, fileAtStart, loaded, saved, summary>>

\* main, lines 134-180: one iteration of "for _, a := range rel.Assets".
ProcessAsset(p) ==
    /\ pc[p] = "loop"
    /\ idx[p] <= Len(rel[p])
    /\ LET a == rel[p][idx[p]]
           name == TrimSuffix(a.Name, ".zip")
       IN  IF ~Qualifies(a)
           THEN /\ last' = [last EXCEPT ![p] =
                           [i |-> idx[p], skipped |-> TRUE, name |-> "", entry |-> NoEntry]]
                /\ UNCHANGED <<db, log, io>>
           ELSE \E resp \in ManifestResponses :
                   LET entry == BuildEntry(tag[p], repo[p], a, resp)
                   IN  /\ io' = [io EXCEPT ![p] = Append(@, "get manifest")]
                       /\ db' = [db EXCEPT ![p] = Upsert(db[p], entry)]
                       /\ log' = [log EXCEPT ![p] = Append(@,
                                  [i |-> idx[p], entry |-> entry,
                                   manifestErr |-> ManifestFailed(resp)])]
                       /\ last' = [last EXCEPT ![p] =
                                  [i |-> idx[p], skipped |-> FALSE, name |-> name,
                                   entry |-> entry]]
    /\ idx' = [idx EXCEPT ![p] = idx[p] + 1]
    /\ UNCHANGED <<file, runs, pc, tag, repo, rb, rel, exit, file0, fileAtStart, loaded, saved,
                   failedAt, summary>>

\* The range loop is over: main goes on to the save.
EndLoop(p) ==
    /\ pc[p] = "loop"
    /\ idx[p] > Len(rel[p])
    /\ pc' = [pc EXCEPT ![p] = "save"]
    /\ UNCHANGED <<file, runs, tag, repo, db, rb, rel, idx, exit, file0, fileAtStart,
                   loaded, log, last, saved, failedAt, io, summary>>

\* main, lines 182-187: saveDB("registry.json", db), then the summary.
Save(p) ==
    /\ pc[p] = "save"
    /\ saved' = [saved EXCEPT ![p] = Append(@, db[p])]
    /\ \E outcome \in WriteOutcomes :
          LET r == saveDB(file, Slice(db[p]), outcome)
          IN  /\ file' = r.file
              /\ IF r.err
                 THEN /\ Fatal(p, "save")
                      /\ UNCHANGED summary
                 ELSE /\ pc' = [pc EXCEPT ![p] = "done"]
                      /\ exit' = [exit EXCEPT ![p] = 0]
                      /\ summary' = [summary EXCEPT ![p] = Len(db[p])]
                      /\ UNCHANGED failedAt
    /\ io' = [io EXCEPT ![p] = Append(@, "save")]
    /\ UNCHANGED <<runs, tag, repo, db, rb, rel, idx, file0, fileAtStart, loaded, log, last>>

Step(p) ==
    \/ Start(p)
    \/ Load(p)
    \/ FetchRelease(p)
    \/ DecodeRelease(p)
    \/ ProcessAsset(p)
    \/ EndLoop(p)
    \/ Save(p)

\* Runs one after the other: the single-writer use the program assumes.
Next == (\E p \in {1} : Step(p)) /\ UNCHANGED fn

Spec == Init /\ [][Next]_vars

\* A run that is in the asset loop goes on: main is sequential code and
\* nothing in the loop waits on another process.
FairSpec ==
    /\ Spec
    /\ \A p \in {1} : /\ WF_vars(ProcessAsset(p) /\ UNCHANGED fn)
                      /\ WF_vars(EndLoop(p) /\ UNCHANGED fn)

(***************************************************************************)
(* Two runs at the same time on one registry.json.  Nothing in main takes  *)
(* a lock, so the steps of the two processes interleave freely.  The       *)
(* releases of these runs hold at most MaxConcAssets assets.               *)
(***************************************************************************)
MaxConcAssets == 1

\* The tags of the two runs are in ConcTags, each process runs main once,
\* and registry.json is missing or holds one entry at the start.
ConcTags == {"", "v1.2.3"}
ConcFiles == {NoFile, JsonFile(Slice(<<OldAlpha>>))}

ConcInit ==
    /\ \E f \in ConcFiles : RunInit(f)
    /\ fn = NoCall

ConcNext ==
    /\ \E p \in Procs : Step(p) /\ (runs' # runs => pc[p] = "idle")
    /\ \A p \in Procs :
          /\ tag'[p] \in ConcTags
          /\ Len(rb'[p].body.assets) <= MaxConcAssets
    /\ UNCHANGED fn

ConcSpec == ConcInit /\ [][ConcNext]_vars

(***************************************************************************)
(* A run and its repetition.  Process 1 runs main once; when it has saved, *)
(* process 2 runs main once on the registry.json it finds, in the same     *)
(* environment (RELEASE_TAG, BLUEPRINTS_REPO) and with the same answers of *)
(* the remote side: the same release body and, asset by asset, a manifest  *)
(* response that yields the same entry.                                    *)
(***************************************************************************)
Replays(q, p) ==
    /\ tag'[q] = tag[p]
    /\ repo'[q] = repo[p]
    /\ rb'[q] \in {NoBody, rb[p]}
    /\ Len(log'[q]) <= Len(log[p])
    /\ \A k \in 1..Len(log'[q]) : log'[q][k] = log[p][k]

RerunNext ==
    /\ \/ Step(1) /\ pc[1] # "done" /\ (runs' # runs => pc[1] = "idle")
       \/ Step(2) /\ pc[1] = "done" /\ (runs' # runs => pc[2] = "idle") /\ Replays(2, 1)
    /\ UNCHANGED fn

RerunSpec == Init /\ [][RerunNext]_vars

(***************************************************************************)
(* The functions of the reconciliation applied to drawn arguments.         *)
(***************************************************************************)
FnNames == {"foo", "alpha"}
FnEntries ==
    {Blueprint(n, v, "github.com/o/r", "blueprints/" \o n, "U1", n \o " blueprint", t) :
        n \in FnNames, v \in {"0.9", "1.2.3"}, t \in {NilSlice, Slice(<<"cli">>)}}
FnCatalogs == SeqsUpTo(FnEntries, MaxLen)

\* Tags given with the version they are expected to yield: "v" \o rest
\* yields rest, a tag that does not start with "v" yields itself.
FnTags ==
    {[tag |-> "v" \o rest, version |-> rest] : rest \in {"1.2.3", "v2", ""}}
    \cup {[tag |-> "1.0", version |-> "1.0"]}

\* Blueprint identifiers.
FnIDs == {"foo", "alpha", ""}

FnDocs ==
    {YamlDoc(n, v, d, t) :
        n \in {Absent, Scalar(""), Scalar("alpha"), MapNode},
        v \in {Absent, Scalar("2.0"), SeqNode(<<"2.0">>)},
        d \in {Absent, Scalar("Alpha tools")},
        t \in {Absent, SeqNode(<<>>), SeqNode(<<"cli">>), Scalar("cli")}}
    \cup {YamlSyntaxError}
FnResponses ==
    {Response(FALSE, 0, EmptyDoc), Response(TRUE, 404, FullDoc), Response(TRUE, 500, EmptyDoc)}
    \cup {Response(TRUE, 200, d) : d \in FnDocs}

FnInit ==
    /\ RunInit(NoFile)
    /\ fn = NoCall

\* The upsert loop of main applied to a catalog and an entry, once and a
\* second time to its own result.
ApplyUpsert ==
    /\ fn.op = "none"
    /\ \E C \in FnCatalogs, E \in FnEntries :
        fn' = [op |-> "upsert", C |-> C, E |-> E,
               out |-> Upsert(C, E), again |-> Upsert(Upsert(C, E), E)]

\* The filter and the entry construction of the asset loop applied to an
\* asset named id \o ".zip".
ApplyBuild ==
    /\ fn.op = "none"
    /\ \E t \in FnTags, id \in FnIDs, resp \in FnResponses :
        LET a == Asset(id \o ".zip", "U1")
        IN  fn' = [op |-> "build", tag |-> t.tag, version |-> t.version, id |-> id,
                   asset |-> a, resp |-> resp, qualifies |-> Qualifies(a),
                   man |-> ResolveManifest(resp),
                   manifestErr |-> ManifestFailed(resp),
                   entry |-> BuildEntry(t.tag, "o/r", a, resp)]

\* Catalogs for the round trip through registry.json: a nil or non-nil
\* list, tags nil, empty or not, and a version taken from a RELEASE_TAG
\* that holds a byte which is not UTF-8.
RtEntries ==
    {Blueprint("alpha", v, "github.com/o/r", "blueprints/alpha", "U1", "alpha blueprint", t) :
        v \in {"1.2.3", "1#"}, t \in {NilSlice, Slice(<<>>), Slice(<<"cli">>)}}
RtCatalogs == {NilSlice} \cup {Slice(c) : c \in SeqsUpTo(RtEntries, MaxLen)}

\* saveDB to a path and loadDB from it, and loadDB from a path that does
\* not exist.
ApplyRoundTrip ==
    /\ fn.op = "none"
    /\ \E C \in RtCatalogs, f \in {NoFile, Malformed, JsonFile(Slice(<<OldAlpha>>))} :
        LET s == saveDB(f, C, "ok")
        IN  fn' = [op |-> "roundtrip", C |-> C, before |-> f, saveErr |-> s.err,
                   back |-> loadDB(s.file, FALSE), absent |-> loadDB(NoFile, FALSE)]

FnNext == (ApplyUpsert \/ ApplyBuild \/ ApplyRoundTrip) /\ UNCHANGED runVars

FnSpec == FnInit /\ [][FnNext]_vars

(***************************************************************************)
(* Properties.                                                             *)
(***************************************************************************)
UniqueNames(bps) ==
    Cardinality({bps[i].Name : i \in 1..Len(bps)}) = Len(bps)

\* The catalog a load of registry.json content f gives (empty when there is
\* none).
FileCatalog(f) == loadDB(f, FALSE).db

\* C1: when registry.json held at most one entry per name before the first
\* run (or held no catalog), every in-memory catalog, every catalog passed
\* to saveDB and the catalog in registry.json have at most one entry per
\* name, whatever the releases and manifests were.
UniqueInitFiles == {f \in InitFiles : UniqueNames(FileCatalog(f))}

C1_UniqueNames ==
    file0 \in UniqueInitFiles =>
        /\ UniqueNames(FileCatalog(file))
        /\ \A p \in Procs :
              /\ UniqueNames(db[p])
              /\ \A k \in 1..Len(saved[p]) : UniqueNames(saved[p][k])

\* A second run has saved, after two assets of its release resolved to one
\* name, starting from a non-empty catalog with unique names.
C1_Witness ==
    /\ UniqueNames(FileCatalog(file0))
    /\ Len(FileCatalog(file0)) >= 1
    /\ runs = 2
    /\ pc[1] = "done"
    /\ Len(log[1]) = 2
    /\ log[1][1].entry.Name = log[1][2].entry.Name
    /\ Len(db[1]) = 2

\* An iteration of the asset loop of run p that upserted.
Upserted(p) == pc[p] = "loop" /\ log'[p] # log[p]

C3_AbsentAppends ==
    (fn.op = "upsert" /\ \A i \in 1..Len(fn.C) : fn.C[i].Name # fn.E.Name) =>
        /\ Len(fn.out) = Len(fn.C) + 1
        /\ fn.out[Len(fn.out)] = fn.E
        /\ \A i \in 1..Len(fn.C) : fn.out[i] = fn.C[i]

\* An entry was upserted into a non-empty catalog without its name.
C3_Witness ==
    /\ fn.op = "upsert"
    /\ Len(fn.C) >= 1
    /\ \A i \in 1..Len(fn.C) : fn.C[i].Name # fn.E.Name
    /\ Len(fn.out) = Len(fn.C) + 1

\* C4: upserting the same entry a second time changes nothing.
C4_Idempotent ==
    fn.op = "upsert" => fn.again = fn.out

\* The entry replaced a different entry of its name, and was applied twice.
C4_Witness ==
    /\ fn.op = "upsert"
    /\ \E i \in 1..Len(fn.C) : fn.C[i].Name = fn.E.Name /\ fn.C[i] # fn.E
    /\ fn.out # fn.C
    /\ fn.again = fn.out

\* new has the names of old at their positions, and possibly more entries.
Preserved(old, new) ==
    /\ Len(new) >= Len(old)
    /\ \A i \in 1..Len(old) : new[i].Name = old[i].Name

\* C5: every name of the catalog a run loaded stays at its position in the
\* in-memory catalog and in the catalog passed to saveDB, and a save that
\* replaces the catalog in registry.json keeps every name at its position,
\* so the catalog never gets shorter.
C5_NeverRemoved ==
    /\ [](\A p \in Procs :
            /\ pc[p] \in {"fetch", "decode", "loop", "save", "done"}
                  => Preserved(loaded[p], db[p])
            /\ \A k \in 1..Len(saved[p]) : Preserved(loaded[p], saved[p][k]))
    /\ [][(file' # file /\ file.kind = "json" /\ file'.kind = "json")
             => Preserved(FileCatalog(file), FileCatalog(file'))]_vars

\* A run replaced the first entry of its loaded catalog, appended a new
\* name and saved.
C5_Witness ==
    /\ pc[1] = "done"
    /\ Len(loaded[1]) >= 1
    /\ Len(db[1]) > Len(loaded[1])
    /\ db[1][1] # loaded[1][1]
    /\ saved[1] = <<db[1]>>
    /\ file = MarshalIndent(Slice(db[1]))

\* C6: the fallbacks are applied field by field, only where the field of
\* the manifest is empty: name <- blueprintID, version <- tag without one
\* leading "v", description <- blueprintID \o " blueprint", tags as in the
\* manifest; and tag "v1.2.3", blueprintID "foo" and an empty manifest give
\* {name "foo", version "1.2.3", description "foo blueprint", no tags}.
C6_FieldByField ==
    fn.op = "build" =>
        /\ fn.qualifies
        /\ fn.entry.Name = (IF fn.man.Name = "" THEN fn.id ELSE fn.man.Name)
        /\ fn.entry.Version = (IF fn.man.Version = "" THEN fn.version ELSE fn.man.Version)
        /\ fn.entry.Description =
              (IF fn.man.Description = "" THEN fn.id \o " blueprint" ELSE fn.man.Description)
        /\ fn.entry.Tags = fn.man.Tags
        /\ (fn.tag = "v1.2.3" /\ fn.id = "foo" /\ fn.man = EmptyManifest) =>
              /\ fn.entry.Name = "foo"
              /\ fn.entry.Version = "1.2.3"
              /\ fn.entry.Description = "foo blueprint"
              /\ fn.entry.Tags.elems = <<>>

\* A manifest with a name and tags but no version and no description, for
\* asset "foo.zip" at tag "vv2": name and tags of the manifest, version
\* "v2" and description "foo blueprint".
C6_Witness ==
    /\ fn.op = "build"
    /\ fn.tag = "vv2"
    /\ fn.id = "foo"
    /\ fn.man = bpManifest("alpha", "", "", Slice(<<"cli">>))
    /\ fn.entry.Name = "alpha"
    /\ fn.entry.Version = "v2"
    /\ fn.entry.Description = "foo blueprint"
    /\ fn.entry.Tags = Slice(<<"cli">>)

\* The asset name is id \o ".zip".
IsArchiveOf(n, id) == n = id \o ".zip"
ArchiveIDs(n) == {id \in {SubSeq(n, 1, k) : k \in 0..Len(n)} : IsArchiveOf(n, id)}

\* C7: an iteration over an asset whose name does not end in ".zip" adds no
\* entry, leaves the in-memory catalog as it is and stays in the loop; an
\* iteration over id \o ".zip" upserts one entry built for blueprintID id
\* ("foo.tar" is skipped, "foo.zip" gives "foo").
C7_Filter ==
    [][\A p \in Procs : (pc[p] = "loop" /\ idx'[p] # idx[p]) =>
          LET a == rel[p][idx[p]]
          IN  /\ ArchiveIDs(a.Name) = {} =>
                    /\ db'[p] = db[p]
                    /\ log'[p] = log[p]
                    /\ pc'[p] = "loop"
                    /\ exit'[p] = exit[p]
              /\ \A id \in ArchiveIDs(a.Name) :
                    /\ Len(log'[p]) = Len(log[p]) + 1
                    /\ last'[p].name = id
                    /\ last'[p].entry.Path = PathJoin("blueprints", id)
              /\ a.Name = "foo.tar" => log'[p] = log[p]
              /\ a.Name = "foo.zip" => last'[p].name = "foo" /\ ~last'[p].skipped]_vars

\* A run went over "foo.tar" and then "foo.zip" and saved: one upsert, by
\* the second asset, for blueprintID "foo".
C7_Witness ==
    /\ pc[1] = "done"
    /\ Len(rel[1]) = 2
    /\ rel[1][1].Name = "foo.tar"
    /\ rel[1][2].Name = "foo.zip"
    /\ Len(log[1]) = 1
    /\ log[1][1].i = 2
    /\ last[1].name = "foo"
    /\ Len(db[1]) = Len(loaded[1]) + 1

\* The steps of main before the asset loop that end the run.
EarlySteps == {"config", "load", "release", "decode release"}

\* C8: a run that ended on a missing configuration, a failed load, a failed
\* release fetch or an undecodable release has exit status 1, did no
\* upsert, never called saveDB, and registry.json is as it was when the run
\* started.
C8_NoWriteOnEarlyFailure ==
    \A p \in {1} : failedAt[p] \in EarlySteps =>
        /\ pc[p] = "failed"
        /\ exit[p] = 1
        /\ log[p] = <<>>
        /\ saved[p] = <<>>
        /\ file = fileAtStart[p]

\* The second run loaded a non-empty catalog and ended on the release
\* fetch.
C8_Witness ==
    /\ runs = 2
    /\ failedAt[1] = "release"
    /\ Len(loaded[1]) >= 1
    /\ file.kind = "json"
    /\ file = fileAtStart[1]

\* The indices of the qualifying assets of a release, in order.
RECURSIVE ArchiveIndices(_, _)
ArchiveIndices(as, i) ==
    IF i > Len(as) THEN <<>>
    ELSE (IF ArchiveIDs(as[i].Name) # {} THEN <<i>> ELSE <<>>) \o ArchiveIndices(as, i + 1)

\* C9: once the release is decoded the run cannot end before the save:
\* every step of the asset loop is possible and leads to the loop or to the
\* save, and at the save every qualifying asset has been upserted exactly
\* once, in order, whether its manifest could be resolved or not.
C9_ManifestFailuresDoNotAbort ==
    /\ [](\A p \in {1} :
            /\ pc[p] = "loop" => ENABLED (ProcessAsset(p) \/ EndLoop(p))
            /\ (pc[p] \in {"save", "done"} \/ failedAt[p] = "save") =>
                  [k \in 1..Len(log[p]) |-> log[p][k].i] = ArchiveIndices(rel[p], 1))
    /\ [][\A p \in {1} : pc[p] = "loop" => pc'[p] \in {"loop", "save"}]_vars
    /\ \A p \in {1} : (pc[p] = "loop") ~> (pc[p] = "save")

\* A run is at the save after two qualifying assets, the manifest of the
\* first could not be resolved, the one of the second could.
C9_Witness ==
    /\ pc[1] = "save"
    /\ Len(rel[1]) = 2
    /\ Len(log[1]) = 2
    /\ log[1][1].manifestErr
    /\ ~log[1][2].manifestErr
    /\ log[1][1].i = 1
    /\ log[1][2].i = 2

\* C10: the entry of an asset whose manifest could not be resolved (fetch
\* error, missing document or parse error) has the fallback name, version
\* and description and no tags.
C10_FailureGivesFallbacks ==
    \A p \in {1} : \A k \in 1..Len(log[p]) :
        log[p][k].manifestErr =>
            LET id == TrimSuffix(rel[p][log[p][k].i].Name, ".zip")
                e == log[p][k].entry
            IN  /\ e.Name = id
                /\ e.Version = TrimPrefix(tag[p], "v")
                /\ e.Description = id \o " blueprint"
                /\ e.Tags.elems = <<>>

\* C11: when the save fails the run ends with exit status 1 and
\* registry.json is as it was before the run.
C11_FailedSaveKeepsFile ==
    \A p \in {1} : failedAt[p] = "save" =>
        /\ pc[p] = "failed"
        /\ exit[p] = 1
        /\ file = fileAtStart[p]

\* C15: a run whose tag or repository is empty ends at once with exit
\* status 1: it did no file or network operation (no load, no release or
\* manifest fetch, no save), holds no catalog, upserted nothing and
\* registry.json is as it was.
C15_ConfigErrorFirst ==
    \A p \in {1} : (pc[p] # "idle" /\ (tag[p] = "" \/ repo[p] = "")) =>
        /\ pc[p] = "failed"
        /\ failedAt[p] = "config"
        /\ exit[p] = 1
        /\ io[p] = <<>>
        /\ db[p] = <<>>
        /\ log[p] = <<>>
        /\ saved[p] = <<>>
        /\ summary[p] = -1
        /\ file = fileAtStart[p]

\* A second run has a tag but no repository, over a registry.json that
\* holds entries.
C15_Witness ==
    /\ runs = 2
    /\ tag[1] # ""
    /\ repo[1] = ""
    /\ failedAt[1] = "config"
    /\ file.kind = "json"
    /\ Len(file.blueprints.elems) >= 1

\* The names of a catalog.
Names(bps) == {bps[i].Name : i \in 1..Len(bps)}

\* C12: two runs on one registry.json are not coordinated: a run that
\* loads takes the file as it is at that moment, whatever the other run is
\* doing, and a successful save leaves exactly the catalog of the saving run
\* in the file, with nothing of what the other run wrote since this one
\* loaded.
C12_LastSaveWins ==
    [][\A p \in Procs :
          /\ (pc[p] = "load" /\ pc'[p] = "fetch")
                => db'[p] = FileCatalog(file)
          /\ (pc[p] = "save" /\ pc'[p] = "done")
                => file' = MarshalIndent(Slice(db[p]))]_vars

\* Both runs loaded the same catalog, both saved with success, the file is
\* the catalog of run 2, and a name that run 1 added and saved is in
\* neither.
C12_Witness ==
    /\ pc[1] = "done" /\ pc[2] = "done"
    /\ exit[1] = 0 /\ exit[2] = 0
    /\ loaded[1] = loaded[2]
    /\ fileAtStart[1] = fileAtStart[2]
    /\ file = MarshalIndent(Slice(db[2]))
    /\ saved[1] = <<db[1]>>
    /\ \E n \in Names(db[1]) :
          /\ n \notin Names(loaded[1])
          /\ n \notin Names(db[2])
          /\ n \notin Names(FileCatalog(file))

\* The positions of the entries of a catalog that have the given name.
Positions(bps, n) == {j \in 1..Len(bps) : bps[j].Name = n}

\* The last upsert of the run of p whose entry has the given name.
LastOf(p, n) ==
    log[p][CHOOSE k \in 1..Len(log[p]) :
              /\ log[p][k].entry.Name = n
              /\ \A m \in (k + 1)..Len(log[p]) : log[p][m].entry.Name # n]

\* The names the upserts of the run of p brought.
LogNames(p) == {log[p][k].entry.Name : k \in 1..Len(log[p])}

C14_RoundTrip ==
    fn.op = "roundtrip" =>
        /\ ~fn.saveErr
        /\ fn.back = [err |-> FALSE, db |-> fn.C.elems]
        /\ fn.absent = [err |-> FALSE, db |-> <<>>]

\* The names of a sequence of entries that are not in seen, each once, in
\* the order of their first occurrence.
RECURSIVE NewNames(_, _)
NewNames(es, seen) ==
    IF es = <<>> THEN <<>>
    ELSE IF Head(es).Name \in seen THEN NewNames(Tail(es), seen)
    ELSE <<Head(es).Name>> \o NewNames(Tail(es), seen \cup {Head(es).Name})

\* The upserts of a sequence of entries, one after the other.
RECURSIVE UpsertAll(_, _)
UpsertAll(bps, es) ==
    IF es = <<>> THEN bps ELSE UpsertAll(Upsert(bps, Head(es)), Tail(es))

LogEntries(p) == [k \in 1..Len(log[p]) |-> log[p][k].entry]

\* C16: through the asset loop the catalog is the loaded one with the
\* entries of the assets handled so far upserted one after the other; at
\* the save that is one upsert for each qualifying asset, in the order of
\* the asset list.  The loaded entries keep the first positions under their
\* names, and behind them stand the names that are new in the run, once
\* each, in the order of their first occurrence in the asset list.
C16_AssetOrder ==
    \A p \in {1} : pc[p] \in {"loop", "save", "done"} =>
        /\ db[p] = UpsertAll(loaded[p], LogEntries(p))
        /\ pc[p] # "loop" =>
              [k \in 1..Len(log[p]) |-> log[p][k].i] = ArchiveIndices(rel[p], 1)
        /\ Len(db[p]) >= Len(loaded[p])
        /\ \A j \in 1..Len(loaded[p]) : db[p][j].Name = loaded[p][j].Name
        /\ [j \in 1..(Len(db[p]) - Len(loaded[p])) |-> db[p][Len(loaded[p]) + j].Name]
              = NewNames(LogEntries(p), Names(loaded[p]))

\* A saved run on the catalog <<beta>> whose assets brought foo and then
\* alpha.
C16_Witness ==
    /\ pc[1] = "done"
    /\ loaded[1] = <<OldBeta>>
    /\ Len(rel[1]) = 2 /\ rel[1][1].Name = "foo.zip" /\ rel[1][2].Name = "alpha.zip"
    /\ [j \in 1..Len(db[1]) |-> db[1][j].Name] = <<"beta", "foo", "alpha">>
    /\ [j \in 1..Len(FileCatalog(file)) |-> FileCatalog(file)[j].Name]
          = <<"beta", "foo", "alpha">>

\* The names that two or more upserts of the run of p brought.
RepeatedLogNames(p) ==
    {n \in LogNames(p) :
        Cardinality({k \in 1..Len(log[p]) : log[p][k].entry.Name = n}) >= 2}

C18_RunIdempotent ==
    (pc[1] = "done" /\ pc[2] = "done") =>
        /\ fileAtStart[2] = MarshalIndent(Slice(saved[1][1]))
        /\ loaded[2] = FileCatalog(fileAtStart[2])
        /\ log[2] = log[1]
        /\ saved[2] = saved[1]
        /\ file = fileAtStart[2]
        /\ FileCatalog(file) = saved[1][1]

\* Both runs saved; two assets resolved to the same name with different
\* entries, a third name was loaded, and the first run changed the file.
C18_Witness ==
    /\ pc[1] = "done" /\ pc[2] = "done"
    /\ exit[1] = 0 /\ exit[2] = 0
    /\ Len(log[2]) = 2
    /\ log[2][1].entry.Name = log[2][2].entry.Name
    /\ log[2][1].entry # log[2][2].entry
    /\ loaded[1] = <<OldBeta>>
    /\ Len(loaded[2]) = 2
    /\ fileAtStart[1] # fileAtStart[2]
    /\ file = fileAtStart[2]

\* C19: after a successful run the catalog passed to saveDB, the catalog in
\* registry.json and the count of the summary line all have the length of
\* the loaded catalog plus the number of distinct names the qualifying
\* assets resolved to that the loaded catalog did not hold.
C19_SavedLength ==
    \A p \in {1} : (pc[p] = "done" /\ UniqueNames(loaded[p])) =>
        LET n == Len(loaded[p]) + Cardinality(LogNames(p) \ Names(loaded[p]))
        IN  /\ saved[p] = <<db[p]>>
            /\ Len(saved[p][1]) = n
            /\ Len(FileCatalog(file)) = n
            /\ summary[p] = n

\* A saved run on the catalog <<alpha>> with two upserts, one for the loaded
\* name alpha and one for the new name foo: the summary counts 2 entries.
C19_Witness ==
    /\ pc[1] = "done"
    /\ exit[1] = 0
    /\ loaded[1] = <<OldAlpha>>
    /\ Len(log[1]) = 2
    /\ LogNames(1) = {"foo", "alpha"}
    /\ summary[1] = 2
    /\ Len(FileCatalog(file)) = 2

====
